---- MODULE Spec2Model ----
(***************************************************************************)
(* Row-wise append (rbind) of columnar frames: src/core/frame/rbind.cc.    *)
(*                                                                         *)
(* The model follows the call chain                                        *)
(*   py::Frame::rbind  ->  DataTable::rbind  ->  Column::rbind  ->          *)
(*   {ConstNa, SentinelFw<T>, SentinelStr<T>, SentinelObj}::rbind_impl      *)
(* One call is executed per behaviour; the synchronous call is cut into    *)
(* the steps Frame_rbind (argument scan, keyed check, column matching),    *)
(* DataTable_rbind_enter, Column_rbind_step (one per final column) and     *)
(* DataTable_rbind_exit, so that the target can be inspected between the   *)
(* column rebuilds.                                                        *)
(*                                                                         *)
(* Positions are 1-based here (0-based in the source).  Offsets of string  *)
(* columns are machine words; the 32-bit and 64-bit words are scaled down   *)
(* to W32 and W64 bits, with all arithmetic on them taken modulo 2^W, so    *)
(* that the overflow cases are within reach of explicit-state checking.    *)
(***************************************************************************)
EXTENDS Integers, Sequences, FiniteSets, TLC

---------------------------------------------------------------------------
(* Bounds of the explored inputs *)
MaxRows == 2
MaxSrcs == 2

(* Program constants *)
INVALID_INDEX == -1
W32 == 3
W64 == 6
PyNone == -1
GARBAGE == -77

Pow2(n) == 2 ^ n
MAX_ARR32_SIZE == Pow2(W32 - 1) - 1

Names == {"A", "B", "C"}
FwTypes == {"bool", "int8", "int32"}
StrTypes == {"str32", "str64"}

Max(a, b) == IF a < b THEN b ELSE a
Range(s) == {s[k] : k \in 1..Len(s)}
Fill(n, v) == [k \in 1..n |-> v]

RECURSIVE SumSeq(_)
SumSeq(s) == IF s = <<>> THEN 0 ELSE Head(s) + SumSeq(Tail(s))

---------------------------------------------------------------------------
(* Element types and their physical parameters *)

\* sizeof(T) of the storage element of a column of the given stype
SizeOf(stype) ==
  CASE stype = "bool" -> 1
    [] stype = "int8" -> 1
    [] stype = "int32" -> 4
    [] stype = "str32" -> 4
    [] stype = "str64" -> 8
    [] stype = "obj" -> 8
    [] stype = "void" -> 0

\* number of bits of an offset word (scaled)
WordBits(stype) == IF stype = "str32" THEN W32 ELSE W64
WordMod(stype) == Pow2(WordBits(stype))

\* GETNA<T>(): the sentinel of a fixed-width type, the NA tag bit of an offset type
GETNA(stype) ==
  CASE stype = "bool" -> -128
    [] stype = "int8" -> -128
    [] stype = "int32" -> -2147483647 - 1
    [] stype = "str32" -> Pow2(W32 - 1)
    [] stype = "str64" -> Pow2(W64 - 1)
    [] stype = "obj" -> PyNone

\* ISNA<T>(offset) for an offset word: the tag bit is set
ISNA(off, stype) == off >= GETNA(stype)
\* offset & ~GETNA<T>()
Magnitude(off, stype) == IF ISNA(off, stype) THEN off - GETNA(stype) ELSE off
\* offset ^ GETNA<T>()
XorNA(off, stype) == IF ISNA(off, stype) THEN off - GETNA(stype) ELSE off + GETNA(stype)

\* LType of an stype
LTypeOf(stype) ==
  CASE stype \in FwTypes -> IF stype = "bool" THEN "bool" ELSE "int"
    [] stype \in StrTypes -> "string"
    [] stype = "obj" -> "object"
    [] stype = "void" -> "void"

NumRank(stype) ==
  CASE stype = "void" -> 0
    [] stype = "bool" -> 1
    [] stype = "int8" -> 2
    [] stype = "int32" -> 3

\* dt::Type::common(a, b); "invalid" when the two types have no common type
TypeCommon(a, b) ==
  CASE a = b -> a
    [] a # b /\ a = "void" -> b
    [] a # b /\ b = "void" -> a
    [] a # b /\ a \in FwTypes /\ b \in FwTypes ->
         IF NumRank(a) < NumRank(b) THEN b ELSE a
    [] a # b /\ a \in StrTypes /\ b \in StrTypes -> "str64"
    [] a # b /\ a \in StrTypes /\ b = "obj" -> "obj"
    [] a # b /\ a = "obj" /\ b \in StrTypes -> "obj"
    [] OTHER -> "invalid"

---------------------------------------------------------------------------
(* Columns.  A column is [stype, nrows, mbuf, strbuf]:                      *)
(*   void  : no data                                                       *)
(*   fw    : mbuf = nrows slots, GETNA(stype) marks a missing value         *)
(*   str   : mbuf = nrows+1 offset words (mbuf[1] = 0 is offs[-1]),         *)
(*           strbuf = the bytes; a missing row has the NA bit set           *)
(*   obj   : mbuf = nrows object handles, PyNone is the null singleton      *)

Column(stype, nrows, mbuf, strbuf) ==
  [stype |-> stype, nrows |-> nrows, mbuf |-> mbuf, strbuf |-> strbuf]

\* Column::new_na_column(nrows, stype), materialized
new_na_column(nrows, stype) ==
  CASE stype = "void" -> Column("void", nrows, <<>>, <<>>)
    [] stype \in FwTypes -> Column(stype, nrows, Fill(nrows, GETNA(stype)), <<>>)
    [] stype \in StrTypes ->
         Column(stype, nrows, <<0>> \o Fill(nrows, GETNA(stype)), <<>>)
    [] stype = "obj" -> Column("obj", nrows, Fill(nrows, PyNone), <<>>)

\* the bytes of row r (1-based) of a string column
StrStart(col, r) == Magnitude(col.mbuf[r], col.stype)
StrEnd(col, r) == Magnitude(col.mbuf[r + 1], col.stype)
StrBytes(col, r) ==
  [k \in 1..(StrEnd(col, r) - StrStart(col, r)) |-> col.strbuf[StrStart(col, r) + k]]

\* the handle of the boxed string object holding the given bytes
RECURSIVE BoxStr(_)
BoxStr(bytes) == IF bytes = <<>> THEN 1000 ELSE 1 + Head(bytes) + 4 * BoxStr(Tail(bytes))

\* Column::get_data_size(1) of a string column: the size of its string data
StrDataSize(col) == IF col.nrows = 0 THEN 0 ELSE StrEnd(col, col.nrows)

\* Column::cast(stype) / cast_inplace(stype), followed by materialize()
cast(col, stype) ==
  CASE col.stype = stype -> col
    [] col.stype # stype /\ col.stype = "void" -> new_na_column(col.nrows, stype)
    [] col.stype # stype /\ col.stype \in FwTypes /\ stype \in FwTypes ->
         Column(stype, col.nrows,
                [r \in 1..col.nrows |->
                   IF col.mbuf[r] = GETNA(col.stype) THEN GETNA(stype) ELSE col.mbuf[r]],
                <<>>)
    [] col.stype # stype /\ col.stype \in StrTypes /\ stype \in StrTypes ->
         Column(stype, col.nrows,
                [k \in 1..(col.nrows + 1) |->
                   IF ISNA(col.mbuf[k], col.stype)
                     THEN (Magnitude(col.mbuf[k], col.stype) + GETNA(stype)) % WordMod(stype)
                     ELSE col.mbuf[k] % WordMod(stype)],
                col.strbuf)
    [] col.stype # stype /\ col.stype \in StrTypes /\ stype = "obj" ->
         Column("obj", col.nrows,
                [r \in 1..col.nrows |->
                   IF ISNA(col.mbuf[r + 1], col.stype) THEN PyNone
                   ELSE BoxStr(StrBytes(col, r))],
                <<>>)

---------------------------------------------------------------------------
(* Frames (DataTable).  ncols and nrows are kept next to the column vector *)
(* because DataTable::rbind grows columns_ before it updates ncols_.       *)

DataTable(names, columns, nrows, nkeys) ==
  [isframe |-> TRUE, names |-> names, columns |-> columns,
   ncols |-> Len(columns), nrows |-> nrows, nkeys |-> nkeys]

\* an argument of the call that is neither a Frame nor a sequence
NotAFrame ==
  [isframe |-> FALSE, names |-> <<>>, columns |-> <<>>,
   ncols |-> 0, nrows |-> 0, nkeys |-> 0]

(* Contents of the explored frames: the cell of frame id, column c, row r. *)
IsNaCell(id, c, r) == (id + c + r) % 3 = 2
FwCell(stype, id, c, r) ==
  IF IsNaCell(id, c, r) THEN GETNA(stype)
  ELSE IF stype = "bool" THEN (id + r) % 2
  ELSE IF stype = "int8" THEN 10 * id + 4 * c + r
  ELSE 1000 * id + 40 * c + r
ObjCell(id, c, r) == IF IsNaCell(id, c, r) THEN PyNone ELSE 100 * id + 10 * c + r
StrLen(id, c, r) ==
  IF IsNaCell(id, c, r) THEN 0 ELSE (id + r) % 3
StrByte(id, r, k) == (id + r + k) % 3
StrCum(id, c, r) == SumSeq([k \in 1..r |-> StrLen(id, c, k)])

MkStrbuf(id, c, nrows) ==
  [p \in 1..StrCum(id, c, nrows) |->
     LET r == CHOOSE q \in 1..nrows : StrCum(id, c, q - 1) < p /\ p <= StrCum(id, c, q)
     IN StrByte(id, r, p - StrCum(id, c, r - 1))]

MkColumn(stype, id, c, nrows) ==
  CASE stype = "void" -> Column("void", nrows, <<>>, <<>>)
    [] stype \in FwTypes ->
         Column(stype, nrows, [r \in 1..nrows |-> FwCell(stype, id, c, r)], <<>>)
    [] stype \in StrTypes ->
         Column(stype, nrows,
                <<0>> \o [r \in 1..nrows |->
                            StrCum(id, c, r) +
                            (IF IsNaCell(id, c, r) THEN GETNA(stype) ELSE 0)],
                MkStrbuf(id, c, nrows))
    [] stype = "obj" ->
         Column("obj", nrows, [r \in 1..nrows |-> ObjCell(id, c, r)], <<>>)

\* a 32-bit string column holds at most MAX_ARR32_SIZE rows and bytes
Fits32(col) ==
  col.stype = "str32" => col.nrows <= MAX_ARR32_SIZE /\ Len(col.strbuf) <= MAX_ARR32_SIZE

MkTable(id, names, stypes, nrows, nkeys) ==
  DataTable(names, [c \in 1..Len(names) |-> MkColumn(stypes[c], id, c, nrows)],
            nrows, nkeys)

TableOK(t) == \A c \in 1..Len(t.columns) : Fits32(t.columns[c])

---------------------------------------------------------------------------
(* py::Frame::rbind: the argument scan *)

\* mutant of process_arg: frames without rows are kept
RECURSIVE process_arg_keep(_, _)
process_arg_keep(args, dts) ==
  IF args = <<>> THEN [err |-> "", dts |-> dts]
  ELSE IF Head(args).isframe
    THEN process_arg_keep(Tail(args), Append(dts, Head(args)))
    ELSE [err |-> "InvalidArgument", dts |-> dts]

\* process_arg over the (flattened) varargs: the frames with at least one row,
\* or a TypeError at the first argument that is not a frame
RECURSIVE process_arg(_, _)
process_arg(args, dts) ==
  IF args = <<>> THEN [err |-> "", dts |-> dts]
  ELSE IF Head(args).isframe
    THEN process_arg(Tail(args),
                     IF Head(args).nrows # 0 THEN Append(dts, Head(args)) ELSE dts)
    ELSE [err |-> "InvalidArgument", dts |-> dts]

---------------------------------------------------------------------------
(* py::Frame::rbind: the matching of columns.  The plan is                 *)
(*   [n, final_names, cols, inames, err]                                   *)
(* with cols[c][i] the column of source i that feeds final column c, or    *)
(* INVALID_INDEX.                                                          *)

\* mutant of check_ncols: a wider source passes
check_ncols_lax(n0, n1) == n0 <= n1

\* _check_ncols(n0, n1) returns (TRUE) or throws (FALSE)
check_ncols(n0, n1) == n0 = n1

\* the map built from final_names by `inames[name] = i++`
InitInames(final_names) ==
  [nm \in Range(final_names) |->
     CHOOSE k \in 1..Len(final_names) :
       /\ final_names[k] = nm
       /\ \A m \in (k + 1)..Len(final_names) : final_names[m] # nm]

SetCol(cols, c, i, j) == [cols EXCEPT ![c][i] = j]

\* the plan before the first source: lines 166-180
PlanStart(dt, dts) ==
  LET final_names == IF dt.ncols = 0 THEN dts[1].names ELSE dt.names
      n == IF dt.ncols = 0 THEN Len(final_names) ELSE dt.ncols
  IN [n |-> n, final_names |-> final_names,
      cols |-> Fill(n, Fill(Len(dts), INVALID_INDEX)),
      inames |-> InitInames(final_names), err |-> ""]

\* mutant of ByNameColumn: a name is only looked for at its own position
ByNameColumn_samepos(st, i, j, name, force, ndts) ==
  IF j <= st.n /\ name = st.final_names[j]
    THEN [st EXCEPT !.cols = SetCol(st.cols, j, i, j)]
  ELSE IF force
    THEN [st EXCEPT
            !.final_names = Append(st.final_names, name),
            !.cols = SetCol(Append(st.cols, Fill(ndts, INVALID_INDEX)), st.n + 1, i, j),
            !.inames = [nm \in DOMAIN st.inames \cup {name} |->
                          IF nm = name THEN st.n + 1 ELSE st.inames[nm]],
            !.n = st.n + 1]
  ELSE [st EXCEPT !.err = "UnknownColumn"]

\* one column of one source in by-name mode: lines 195-214
ByNameColumn(st, i, j, name, force, ndts) ==
  IF j <= st.n /\ name = st.final_names[j]
    THEN [st EXCEPT !.cols = SetCol(st.cols, j, i, j)]
  ELSE IF name \in DOMAIN st.inames
    THEN [st EXCEPT !.cols = SetCol(st.cols, st.inames[name], i, j)]
  ELSE IF force
    THEN [st EXCEPT
            !.final_names = Append(st.final_names, name),
            !.cols = SetCol(Append(st.cols, Fill(ndts, INVALID_INDEX)), st.n + 1, i, j),
            !.inames = [nm \in DOMAIN st.inames \cup {name} |->
                          IF nm = name THEN st.n + 1 ELSE st.inames[nm]],
            !.n = st.n + 1]
  ELSE [st EXCEPT !.err = "UnknownColumn"]

RECURSIVE ByNameColumns(_, _, _, _, _, _)
ByNameColumns(st, i, j, dfnames, force, ndts) ==
  IF j > Len(dfnames) \/ st.err # "" THEN st
  ELSE ByNameColumns(ByNameColumn(st, i, j, dfnames[j], force, ndts),
                     i, j + 1, dfnames, force, ndts)

\* the loop over the sources in by-name mode: lines 190-217
RECURSIVE ByNames(_, _, _, _)
ByNames(st, i, dts, force) ==
  IF i > Len(dts) \/ st.err # "" THEN st
  ELSE IF ~force /\ ~check_ncols(st.n, dts[i].ncols)
    THEN [st EXCEPT !.err = "SchemaMismatch"]
  ELSE ByNames(ByNameColumns(st, i, 1, dts[i].names, force, Len(dts)),
               i + 1, dts, force)

\* mutant of ByPositionFrame: the borrowed names are read from the start of
\* the source's names
ByPositionFrame_names(st, i, df, ndts) ==
  LET wider == st.n < df.ncols
      names1 == IF wider
                  THEN st.final_names \o SubSeq(df.names, 1, df.ncols - st.n)
                  ELSE st.final_names
      cols1 == IF wider
                 THEN st.cols \o Fill(df.ncols - st.n, Fill(ndts, INVALID_INDEX))
                 ELSE st.cols
      n1 == IF wider THEN df.ncols ELSE st.n
  IN [st EXCEPT
        !.final_names = names1,
        !.n = n1,
        !.cols = [c \in 1..Len(cols1) |->
                    IF c <= df.ncols THEN [cols1[c] EXCEPT ![i] = c] ELSE cols1[c]]]

\* one source in positional mode: lines 224-237
ByPositionFrame(st, i, df, ndts) ==
  LET wider == st.n < df.ncols
      names1 == IF wider
                  THEN st.final_names \o SubSeq(df.names, st.n + 1, df.ncols)
                  ELSE st.final_names
      cols1 == IF wider
                 THEN st.cols \o Fill(df.ncols - st.n, Fill(ndts, INVALID_INDEX))
                 ELSE st.cols
      n1 == IF wider THEN df.ncols ELSE st.n
  IN [st EXCEPT
        !.final_names = names1,
        !.n = n1,
        !.cols = [c \in 1..Len(cols1) |->
                    IF c <= df.ncols THEN [cols1[c] EXCEPT ![i] = c] ELSE cols1[c]]]

\* the loop over the sources in positional mode: lines 222-239
RECURSIVE ByPosition(_, _, _, _)
ByPosition(st, i, dts, force) ==
  IF i > Len(dts) \/ st.err # "" THEN st
  ELSE IF st.n # dts[i].ncols /\ ~force /\ ~check_ncols(st.n, dts[i].ncols)
    THEN [st EXCEPT !.err = "SchemaMismatch"]
  ELSE ByPosition(ByPositionFrame(st, i, dts[i], Len(dts)), i + 1, dts, force)

\* lines 166-240
Plan(dt, dts, force, bynames) ==
  IF bynames THEN ByNames(PlanStart(dt, dts), 1, dts, force)
  ELSE ByPosition(PlanStart(dt, dts), 1, dts, force)

---------------------------------------------------------------------------
(* Buffers *)

\* Buffer::resize(n): the old content is kept, the new slots hold `fresh`
Resize(buf, n, fresh) == [k \in 1..n |-> IF k <= Len(buf) THEN buf[k] ELSE fresh]
\* std::memcpy / std::fill / set_value of the slots `vals` at slot `pos` (1-based)
WriteAt(buf, pos, vals) ==
  [k \in 1..Len(buf) |->
     IF pos <= k /\ k < pos + Len(vals) THEN vals[k - pos + 1] ELSE buf[k]]

\* what an rbind_impl hands back: the rebuilt column, the stype it asks to be
\* retried with ("void" = no retry), the place where its cursor stopped and
\* the place where its closing xassert wants it
ImplResult(col, new_stype, cursor, expected) ==
  [col |-> col, new_stype |-> new_stype, cursor |-> cursor, expected |-> expected]

---------------------------------------------------------------------------
(* dt::ConstNa_ColumnImpl::rbind_impl: lines 500-510 *)
ConstNa_rbind_impl(self, columns, new_nrows, col_empty) ==
  ImplResult([self EXCEPT !.nrows = new_nrows], "void", 0, 0)

---------------------------------------------------------------------------
(* dt::SentinelFw_ColumnImpl<T>::rbind_impl: lines 612-661.                 *)
(* The loop state is [mbuf, resptr, rows_to_fill], resptr in bytes from     *)
(* resptr0.                                                                *)

\* mutant of FwBegin: the rows of an empty column are not counted for filling
FwBegin_nofill(self, new_nrows, col_empty) ==
  [mbuf |-> Resize(self.mbuf, new_nrows, GARBAGE),
   resptr |-> IF col_empty THEN 0 ELSE SizeOf(self.stype) * self.nrows,
   rows_to_fill |-> 0]

\* lines 629-634: where the copy starts and how many rows wait for NAs
FwBegin(self, new_nrows, col_empty) ==
  [mbuf |-> Resize(self.mbuf, new_nrows, GARBAGE),
   resptr |-> IF col_empty THEN 0 ELSE SizeOf(self.stype) * self.nrows,
   rows_to_fill |-> IF col_empty THEN self.nrows ELSE 0]

\* lines 639-643 and 655-658: set_value(resptr, naptr, sizeof(T), rows_to_fill)
FwFlush(st, stype) ==
  IF st.rows_to_fill # 0
    THEN [mbuf |-> WriteAt(st.mbuf, st.resptr \div SizeOf(stype) + 1,
                           Fill(st.rows_to_fill, GETNA(stype))),
          resptr |-> st.resptr + st.rows_to_fill * SizeOf(stype),
          rows_to_fill |-> 0]
    ELSE st

\* lines 636-653: one column to append
FwAppend(st, col, stype) ==
  IF col.stype = "void"
    THEN [st EXCEPT !.rows_to_fill = @ + col.nrows]
    ELSE LET st1 == FwFlush(st, stype)
             col1 == IF col.stype # stype THEN cast(col, stype) ELSE col
             col_data_size == SizeOf(stype) * col1.nrows
         IN IF col_data_size # 0
              THEN [st1 EXCEPT
                      !.mbuf = WriteAt(@, st1.resptr \div SizeOf(stype) + 1, col1.mbuf),
                      !.resptr = @ + col_data_size]
              ELSE st1

RECURSIVE FwLoop(_, _, _, _)
FwLoop(st, columns, j, stype) ==
  IF j > Len(columns) THEN st
  ELSE FwLoop(FwAppend(st, columns[j], stype), columns, j + 1, stype)

SentinelFw_rbind_impl(self, columns, new_nrows, col_empty) ==
  LET st == FwFlush(FwLoop(FwBegin(self, new_nrows, col_empty), columns, 1, self.stype),
                    self.stype)
  IN ImplResult(Column(self.stype, new_nrows, st.mbuf, <<>>), "void",
                st.resptr, SizeOf(self.stype) * new_nrows)

---------------------------------------------------------------------------
(* dt::SentinelObj_ColumnImpl::rbind_impl: lines 669-701.                   *)
(* The loop state is [mbuf, dest], dest in slots from dest_data0.           *)

\* lines 681-685: where the first appended value goes
ObjBegin(self, new_nrows, col_empty) ==
  [mbuf |-> Resize(self.mbuf, new_nrows, PyNone),
   dest |-> IF ~col_empty THEN self.nrows ELSE 0]

\* col.get_element(i, dd), and None when the element is not valid
ObjElement(col, r) == col.mbuf[r]

\* lines 687-697: one column to append
ObjAppend(st, col) ==
  IF col.stype = "void"
    THEN [st EXCEPT !.dest = @ + col.nrows]
    ELSE LET col1 == cast(col, "obj")
         IN [mbuf |-> WriteAt(st.mbuf, st.dest + 1,
                              [r \in 1..col1.nrows |-> ObjElement(col1, r)]),
             dest |-> st.dest + col1.nrows]

RECURSIVE ObjLoop(_, _, _)
ObjLoop(st, columns, j) ==
  IF j > Len(columns) THEN st
  ELSE ObjLoop(ObjAppend(st, columns[j]), columns, j + 1)

SentinelObj_rbind_impl(self, columns, new_nrows, col_empty) ==
  LET st == ObjLoop(ObjBegin(self, new_nrows, col_empty), columns, 1)
  IN ImplResult(Column("obj", new_nrows, st.mbuf, <<>>), "void", st.dest, new_nrows)

---------------------------------------------------------------------------
(* dt::SentinelStr_ColumnImpl<T>::rbind_impl: lines 519-604.                *)
(* The loop state is [mbuf, strbuf, offs, rows_to_fill, curr_offset]; offs  *)
(* is the index in mbuf of the slot the pointer `offs` points to.           *)

\* lines 529-535: the columns as the size loop leaves them
StrCastColumns(columns, stype) ==
  [j \in 1..Len(columns) |->
     IF columns[j].stype = "void" THEN columns[j]
     ELSE IF LTypeOf(columns[j].stype) # "string" THEN cast(columns[j], stype)
     ELSE columns[j]]

\* lines 525-537: size of the merged string data
StrNewStrbufSize(self, columns, col_empty) ==
  (IF ~col_empty THEN Len(self.strbuf) ELSE 0) +
  SumSeq([j \in 1..Len(columns) |->
            IF columns[j].stype = "void" THEN 0 ELSE StrDataSize(columns[j])])

\* mutant of StrNeeds64: the row count is not looked at
StrNeeds64_bytes(stype, new_strbuf_size, new_nrows) ==
  SizeOf(stype) = 4 /\ new_strbuf_size > MAX_ARR32_SIZE

\* lines 539-540: the column needs 64-bit offsets
StrNeeds64(stype, new_strbuf_size, new_nrows) ==
  SizeOf(stype) = 4 /\ (new_strbuf_size > MAX_ARR32_SIZE \/ new_nrows > MAX_ARR32_SIZE)

\* lines 547-561
StrBegin(self, new_nrows, col_empty, new_strbuf_size) ==
  LET mbuf0 == WriteAt(Resize(self.mbuf, new_nrows + 1, GARBAGE), 1, <<0>>)
  IN [mbuf |-> mbuf0,
      strbuf |-> Resize(self.strbuf, new_strbuf_size, GARBAGE),
      offs |-> IF col_empty THEN 2 ELSE 2 + self.nrows,
      rows_to_fill |-> IF col_empty THEN self.nrows ELSE 0,
      curr_offset |-> IF col_empty THEN 0
                      ELSE Magnitude(mbuf0[self.nrows + 1], self.stype)]

\* lines 566-571 and 600-603: the pending rows become NA offsets
StrFlush(st, stype) ==
  IF st.rows_to_fill # 0
    THEN [st EXCEPT
            !.mbuf = WriteAt(@, st.offs,
                             Fill(st.rows_to_fill, XorNA(st.curr_offset, stype))),
            !.offs = @ + st.rows_to_fill,
            !.rows_to_fill = 0]
    ELSE st

\* static_cast<T>(GETNA<uint64_t>() - GETNA<uint32_t>())
DeltaNA(stype) == (GETNA("str64") - GETNA("str32")) % WordMod(stype)

\* mutant of StrTranslate: the NA tag is not moved to the new width
StrTranslate_nodelta(offset, from, stype, curr_offset) ==
  ((offset % WordMod(stype)) + curr_offset) % WordMod(stype)

\* lines 575-590: an offset of a source column re-expressed in the new column
StrTranslate(offset, from, stype, curr_offset) ==
  IF from = "str32"
    THEN ((offset % WordMod(stype)) + curr_offset +
          (IF SizeOf(stype) = 8 /\ ISNA(offset, "str32") THEN DeltaNA(stype) ELSE 0))
         % WordMod(stype)
    ELSE ((offset % WordMod(stype)) + curr_offset -
          (IF SizeOf(stype) = 4 /\ ISNA(offset, "str64") THEN DeltaNA(stype) ELSE 0))
         % WordMod(stype)

\* lines 563-598: one column to append
StrAppend(st, col, stype) ==
  IF col.stype = "void"
    THEN [st EXCEPT !.rows_to_fill = @ + col.nrows]
    ELSE LET st1 == StrFlush(st, stype)
             col_strsize == StrDataSize(col)
         IN [st1 EXCEPT
               !.mbuf = WriteAt(@, st1.offs,
                                [r \in 1..col.nrows |->
                                   StrTranslate(col.mbuf[r + 1], col.stype, stype,
                                                st1.curr_offset)]),
               !.offs = @ + col.nrows,
               !.strbuf = IF col_strsize # 0
                            THEN WriteAt(@, st1.curr_offset + 1,
                                         SubSeq(col.strbuf, 1, col_strsize))
                            ELSE @,
               !.curr_offset = IF col_strsize # 0
                                 THEN (@ + col_strsize) % WordMod(stype)
                                 ELSE @]

RECURSIVE StrLoop(_, _, _, _)
StrLoop(st, columns, j, stype) ==
  IF j > Len(columns) THEN st
  ELSE StrLoop(StrAppend(st, columns[j], stype), columns, j + 1, stype)

SentinelStr_rbind_impl(self, columns, new_nrows, col_empty) ==
  LET columns1 == StrCastColumns(columns, self.stype)
      new_strbuf_size == StrNewStrbufSize(self, columns1, col_empty)
  IN IF StrNeeds64(self.stype, new_strbuf_size, new_nrows)
       THEN ImplResult(self, "str64", 0, 0)
       ELSE LET st == StrFlush(StrLoop(StrBegin(self, new_nrows, col_empty,
                                                new_strbuf_size),
                                       columns1, 1, self.stype),
                               self.stype)
            IN ImplResult(Column(self.stype, new_nrows, st.mbuf, st.strbuf),
                          "void", 0, 0)

---------------------------------------------------------------------------
(* Column::rbind: lines 445-492 *)

\* the virtual call _get_mutable_impl()->rbind_impl(...)
rbind_impl(self, columns, new_nrows, col_empty) ==
  CASE self.stype = "void" -> ConstNa_rbind_impl(self, columns, new_nrows, col_empty)
    [] self.stype \in FwTypes -> SentinelFw_rbind_impl(self, columns, new_nrows, col_empty)
    [] self.stype \in StrTypes -> SentinelStr_rbind_impl(self, columns, new_nrows, col_empty)
    [] self.stype = "obj" -> SentinelObj_rbind_impl(self, columns, new_nrows, col_empty)

\* lines 452-462: the common type, left to right; "invalid" once a pair has none
RECURSIVE CommonType(_, _, _)
CommonType(new_type, columns, j) ==
  IF j > Len(columns) \/ new_type = "invalid" THEN new_type
  ELSE CommonType(TypeCommon(new_type, columns[j].stype), columns, j + 1)

\* lines 467-474: the column the append starts from
NewColumn(self, new_stype, col_empty) ==
  IF col_empty THEN new_na_column(self.nrows, new_stype)
  ELSE IF self.stype = new_stype THEN self
  ELSE cast(self, new_stype)

\* xassert of an rbind_impl: it throws in a debug build only
XassertFails(debug, r) == debug /\ r.cursor # r.expected

\* lines 483-487: the second invocation, when the first one asked for an stype
Column_rbind_retry(r1, columns, new_nrows, col_empty) ==
  IF r1.new_stype # "void"
    THEN rbind_impl(cast(r1.col, r1.new_stype), columns, new_nrows, col_empty)
    ELSE r1

\* lines 489-491: the rebuilt column replaces the old one unless an xassert
\* of the invocations r1, r2 threw
Column_rbind_swap(self, debug, col_empty, new_nrows, newcol, r1, r2) ==
  [err |-> IF XassertFails(debug, r1) \/ XassertFails(debug, r2)
             THEN "AssertionError" ELSE "",
   col |-> IF XassertFails(debug, r1) \/ XassertFails(debug, r2) THEN self ELSE r2.col,
   log |-> [calls |-> IF r1.new_stype # "void" THEN 2 ELSE 1, col_empty |-> col_empty,
            new_nrows |-> new_nrows, start |-> newcol, first |-> r1, last |-> r2]]

\* lines 476-491: the invocations of rbind_impl, r1 being the first
Column_rbind_impls(self, columns, debug, col_empty, new_nrows, newcol, r1) ==
  Column_rbind_swap(self, debug, col_empty, new_nrows, newcol, r1,
                    Column_rbind_retry(r1, columns, new_nrows, col_empty))

\* The result is [err, col, log]: col is the column after the call (the old
\* one when the call throws before line 491), log records the call for the
\* properties: the column handed to the first rbind_impl, what that returned,
\* the number of rbind_impl invocations and the last invocation's result.
Column_rbind(self, columns, debug) ==
  LET col_empty == self.stype = "void"
      new_nrows == self.nrows + SumSeq([j \in 1..Len(columns) |-> columns[j].nrows])
      new_stype == CommonType(self.stype, columns, 1)
  IN IF new_stype = "invalid"
       THEN [err |-> "TypeError", col |-> self,
             log |-> [calls |-> 0, col_empty |-> col_empty, new_nrows |-> new_nrows,
                      start |-> self, first |-> ImplResult(self, "void", 0, 0),
                      last |-> ImplResult(self, "void", 0, 0)]]
       ELSE Column_rbind_impls(
              self, columns, debug, col_empty, new_nrows,
              NewColumn(self, new_stype, col_empty),
              rbind_impl(NewColumn(self, new_stype, col_empty), columns,
                         new_nrows, col_empty))

---------------------------------------------------------------------------
(* DataTable::rbind: lines 405-436 *)

\* lines 425-431: the columns to append to final column c
ColsToAppend(dts, col_indices, c) ==
  [j \in 1..Len(dts) |->
     IF col_indices[c][j] = INVALID_INDEX
       THEN new_na_column(dts[j].nrows, "void")
       ELSE dts[j].columns[col_indices[c][j]]]

\* mutant of GrowColumns: the new columns are created without rows
GrowColumns_norows(dt, new_ncols) ==
  dt.columns \o Fill(new_ncols - dt.ncols, new_na_column(0, "void"))

\* lines 413-416: columns_ grown to the final schema
GrowColumns(dt, new_ncols) ==
  dt.columns \o Fill(new_ncols - dt.ncols, new_na_column(dt.nrows, "void"))

\* lines 418-421
NewNrows(dt, dts) == dt.nrows + SumSeq([j \in 1..Len(dts) |-> dts[j].nrows])

---------------------------------------------------------------------------
(* The state *)

VARIABLES
  dt,           \* the target frame (the Frame's DataTable)
  args,         \* the varargs of the call, flattened
  force,        \* argument `force`
  bynames,      \* argument `bynames`
  debug,        \* the build evaluates xassert (DT_DEBUG)
  pc,           \* "call", "planned", "columns", "returned", "raised"
  err,          \* the exception that ended the call, "" if none
  dts,          \* Frame::rbind: the frames to append
  final_names,  \* Frame::rbind: the names of the result
  cols,         \* Frame::rbind: the column index matrix
  i,            \* DataTable::rbind: the final column being rebuilt
  new_nrows,    \* DataTable::rbind: the row count of the result
  dt0,          \* the target as it was when the call started
  log           \* one record per Column::rbind call made so far

vars == <<dt, args, force, bynames, debug, pc, err, dts, final_names, cols,
          i, new_nrows, dt0, log>>

---------------------------------------------------------------------------
(* The explored calls.  A frame is described by its shape: names, stypes   *)
(* and row count; its cells follow from the shape and the frame's place    *)
(* in the call (0 = target, k = k-th argument).                            *)

Shape(names, stypes, nrows) ==
  [isframe |-> TRUE, names |-> names, stypes |-> stypes, nrows |-> nrows]
NoShape == [isframe |-> FALSE, names |-> <<>>, stypes |-> <<>>, nrows |-> 0]

MkLeaf(id, shape) ==
  IF shape.isframe
    THEN MkTable(id, shape.names, shape.stypes, shape.nrows, 0)
    ELSE NotAFrame

\* sequences of distinct names, one or two long
NameLists ==
  {<<a>> : a \in Names} \cup
  {<<a, b>> : <<a, b>> \in {p \in Names \X Names : p[1] # p[2]}}

\* in the schema family the type of a column follows from its name
NameType(name) ==
  CASE name = "A" -> "int8" [] name = "B" -> "str32" [] name = "C" -> "obj"
NameTypes(names) == [c \in 1..Len(names) |-> NameType(names[c])]

StartState(target, leaves, f, b, d) ==
  /\ dt = target
  /\ args = [k \in 1..Len(leaves) |-> MkLeaf(k, leaves[k])]
  /\ force = f
  /\ bynames = b
  /\ debug = d
  /\ pc = "call"
  /\ err = ""
  /\ dts = <<>>
  /\ final_names = <<>>
  /\ cols = <<>>
  /\ i = 0
  /\ new_nrows = 0
  /\ dt0 = target
  /\ log = <<>>
  /\ TableOK(target)
  /\ \A k \in 1..Len(leaves) : TableOK(MkLeaf(k, leaves[k]))

LeafSeqs(S) == UNION {[1..n -> S] : n \in 0..MaxSrcs}

(* Schema family: every combination of column names, keys, zero-row frames *)
(* and non-frames.                                                         *)
SchemaTargets ==
  {MkTable(0, <<>>, <<>>, 0, 0)} \cup
  {MkTable(0, nm, NameTypes(nm), r, 0) :
     nm \in {<<"A">>, <<"A", "B">>}, r \in 0..MaxRows} \cup
  {MkTable(0, nm, NameTypes(nm), MaxRows, 1) : nm \in {<<"A">>, <<"A", "B">>}}
SchemaLeaves ==
  {Shape(nm, NameTypes(nm), 1) : nm \in NameLists} \cup
  {Shape(nm, NameTypes(nm), 0) : nm \in {<<>>, <<"C">>}} \cup
  {NoShape}

Init ==
  \E target \in SchemaTargets, leaves \in LeafSeqs(SchemaLeaves),
     f \in BOOLEAN, b \in BOOLEAN, d \in BOOLEAN :
    StartState(target, leaves, f, b, d)

(* Column families: one target column "A"; every argument either has a     *)
(* column "A" of some type or only a column "B"; matched by name with      *)
(* force, so that "A" is absent from the latter.                           *)
ColumnTargets(types) ==
  {MkTable(0, <<"A">>, <<t>>, r, 0) : t \in types, r \in 0..MaxRows}
ColumnLeaves(types, other) ==
  {Shape(<<"A">>, <<t>>, r) : t \in types, r \in 1..MaxRows} \cup
  {Shape(<<"B">>, <<other>>, r) : r \in 1..MaxRows}

InitFw ==
  \E target \in ColumnTargets({"void", "bool", "int8", "int32"}),
     leaves \in LeafSeqs(ColumnLeaves({"void", "bool", "int8", "int32"}, "int8")) :
    StartState(target, leaves, TRUE, TRUE, TRUE)

InitStr ==
  \E target \in ColumnTargets({"void", "str32", "str64"}),
     leaves \in LeafSeqs(ColumnLeaves({"void", "str32", "str64"}, "str32")) :
    StartState(target, leaves, TRUE, TRUE, TRUE)

InitObj ==
  \E target \in ColumnTargets({"void", "obj", "str32"}),
     leaves \in LeafSeqs(ColumnLeaves({"void", "obj", "str32"}, "obj")),
     d \in BOOLEAN :
    StartState(target, leaves, TRUE, TRUE, d)

(* Conflict family: a target with the columns "A" and "B", each of a       *)
(* numeric or a string type; every argument has the columns "A", "B" or     *)
(* "B", "C", of such types too; force is set, so that "C" is a new column.  *)
ConflictTypes == {"int8", "str32"}
ConflictTargets ==
  {MkTable(0, <<"A", "B">>, <<ta, tb>>, r, 0) :
     ta \in ConflictTypes, tb \in ConflictTypes, r \in {0, MaxRows}}
ConflictLeaves ==
  {Shape(nm, <<ta, tb>>, r) :
     nm \in {<<"A", "B">>, <<"B", "C">>},
     ta \in ConflictTypes, tb \in ConflictTypes, r \in {1, MaxRows}}

InitConflict ==
  \E target \in ConflictTargets, leaves \in LeafSeqs(ConflictLeaves), b \in BOOLEAN :
    StartState(target, leaves, TRUE, b, TRUE)

(* Names family: every column is of type int8, so that no append fails on  *)
(* the types; the frames differ in their column names only.                *)
Int8s(names) == [c \in 1..Len(names) |-> "int8"]
NamesTargets ==
  {MkTable(0, <<>>, <<>>, 0, 0)} \cup
  {MkTable(0, nm, Int8s(nm), r, 0) : nm \in {<<"A">>, <<"A", "B">>}, r \in {0, 1}}
NamesLeaves == {Shape(nm, Int8s(nm), 1) : nm \in NameLists}

InitNames ==
  \E target \in NamesTargets, leaves \in LeafSeqs(NamesLeaves),
     f \in BOOLEAN, b \in BOOLEAN :
    StartState(target, leaves, f, b, TRUE)

---------------------------------------------------------------------------
(* The call as a whole, for comparing the outcomes of two calls *)

\* mutant of IsKeyed: the check is missing
IsKeyed_never(t) == FALSE

\* line 162: the target is keyed
IsKeyed(t) == t.nkeys > 0

\* the column loop of DataTable::rbind from column c on: lines 424-433
RECURSIVE ColumnLoop(_, _, _, _, _)
ColumnLoop(t, frames, col_indices, c, d) ==
  IF c > Len(col_indices) THEN [err |-> "", dt |-> t]
  ELSE LET r == Column_rbind(t.columns[c], ColsToAppend(frames, col_indices, c), d)
       IN IF r.err # "" THEN [err |-> r.err, dt |-> t]
          ELSE ColumnLoop([t EXCEPT !.columns[c] = r.col], frames, col_indices, c + 1, d)

\* DataTable::rbind(dts, col_indices): lines 405-436
DataTable_rbind(t, frames, col_indices, d) ==
  LET r == ColumnLoop([t EXCEPT !.columns = GrowColumns(t, Len(col_indices))],
                      frames, col_indices, 1, d)
  IN IF r.err # "" THEN r
     ELSE [err |-> "",
           dt |-> [r.dt EXCEPT !.ncols = Len(col_indices), !.nrows = NewNrows(t, frames)]]

\* py::Frame::rbind(args): lines 116-245; the result is [err, dt]
Frame_rbind_call(t, a, f, b, d) ==
  LET pa == process_arg(a, <<>>)
      plan == Plan(t, pa.dts, f, b)
      r == DataTable_rbind(t, pa.dts, plan.cols, d)
  IN IF pa.err # "" THEN [err |-> pa.err, dt |-> t]
     ELSE IF pa.dts = <<>> THEN [err |-> "", dt |-> t]
     ELSE IF IsKeyed(t) THEN [err |-> "KeyedFrame", dt |-> t]
     ELSE IF plan.err # "" THEN [err |-> plan.err, dt |-> t]
     ELSE IF r.err # "" THEN r
     ELSE [err |-> "", dt |-> [r.dt EXCEPT !.names = plan.final_names]]

---------------------------------------------------------------------------
(* The steps of a call *)

\* py::Frame::rbind up to the call of DataTable::rbind: lines 116-240
Frame_rbind ==
  /\ pc = "call"
  /\ LET pa == process_arg(args, <<>>)
         plan == Plan(dt, pa.dts, force, bynames)
     IN IF pa.err # ""
          THEN /\ pc' = "raised" /\ err' = pa.err
               /\ UNCHANGED <<dts, final_names, cols>>
        ELSE IF pa.dts = <<>>
          THEN /\ pc' = "returned" /\ err' = ""
               /\ UNCHANGED <<dts, final_names, cols>>
        ELSE IF IsKeyed(dt)
          THEN /\ pc' = "raised" /\ err' = "KeyedFrame"
               /\ dts' = pa.dts
               /\ UNCHANGED <<final_names, cols>>
        ELSE IF plan.err # ""
          THEN /\ pc' = "raised" /\ err' = plan.err
               /\ dts' = pa.dts
               /\ UNCHANGED <<final_names, cols>>
        ELSE /\ pc' = "planned" /\ err' = ""
             /\ dts' = pa.dts
             /\ final_names' = plan.final_names
             /\ cols' = plan.cols
  /\ UNCHANGED <<dt, args, force, bynames, debug, i, new_nrows, dt0, log>>

\* mutant of DataTable_rbind_enter: the counts are committed before the loop
DataTable_rbind_enter_commit ==
  /\ pc = "planned"
  /\ dt' = [dt EXCEPT !.columns = GrowColumns(dt, Len(cols)),
                      !.ncols = Len(cols), !.nrows = NewNrows(dt, dts)]
  /\ new_nrows' = NewNrows(dt, dts)
  /\ i' = 1
  /\ pc' = "columns"
  /\ UNCHANGED <<args, force, bynames, debug, err, dts, final_names, cols, dt0, log>>

\* DataTable::rbind before the column loop: lines 409-423
DataTable_rbind_enter ==
  /\ pc = "planned"
  /\ dt' = [dt EXCEPT !.columns = GrowColumns(dt, Len(cols))]
  /\ new_nrows' = NewNrows(dt, dts)
  /\ i' = 1
  /\ pc' = "columns"
  /\ UNCHANGED <<args, force, bynames, debug, err, dts, final_names, cols, dt0, log>>

\* one turn of the column loop: lines 424-433
Column_rbind_step ==
  /\ pc = "columns"
  /\ i <= Len(cols)
  /\ \E r \in {Column_rbind(dt.columns[i], ColsToAppend(dts, cols, i), debug)} :
        /\ dt' = [dt EXCEPT !.columns[i] = r.col]
        /\ log' = Append(log, r.log)
        /\ err' = r.err
        /\ pc' = IF r.err # "" THEN "raised" ELSE "columns"
        /\ i' = IF r.err # "" THEN i ELSE i + 1
  /\ UNCHANGED <<args, force, bynames, debug, dts, final_names, cols, new_nrows, dt0>>

\* the end of DataTable::rbind and of Frame::rbind: lines 434-435 and 242-244
DataTable_rbind_exit ==
  /\ pc = "columns"
  /\ i > Len(cols)
  /\ dt' = [dt EXCEPT !.ncols = Len(cols), !.nrows = new_nrows, !.names = final_names]
  /\ pc' = "returned"
  /\ UNCHANGED <<args, force, bynames, debug, err, dts, final_names, cols,
                 i, new_nrows, dt0, log>>

Next ==
  \/ Frame_rbind
  \/ DataTable_rbind_enter
  \/ Column_rbind_step
  \/ DataTable_rbind_exit

Spec == Init /\ [][Next]_vars
SpecFw == InitFw /\ [][Next]_vars
SpecStr == InitStr /\ [][Next]_vars
SpecObj == InitObj /\ [][Next]_vars
SpecConflict == InitConflict /\ [][Next]_vars
SpecNames == InitNames /\ [][Next]_vars

---------------------------------------------------------------------------
(* Vocabulary of the properties *)

Done == pc \in {"returned", "raised"}
Succeeded == pc = "returned" /\ err = ""
AllFrames == \A k \in 1..Len(args) : args[k].isframe
\* the arguments that are frames with at least one row
NonEmptyArgs == SelectSeq(args, LAMBDA a : a.isframe /\ a.nrows # 0)
\* the arguments without the frames of zero rows
WithoutEmpty == SelectSeq(args, LAMBDA a : ~(a.isframe /\ a.nrows = 0))
\* the schema the matching starts from
StartNames == IF dt0.ncols = 0 /\ NonEmptyArgs # <<>> THEN NonEmptyArgs[1].names ELSE dt0.names

\* the steps agree with the call taken as a whole
StepsAgree ==
  Done => [err |-> err, dt |-> dt] = Frame_rbind_call(dt0, args, force, bynames, debug)

---------------------------------------------------------------------------
\* C1: after a successful append whose sources are not all dropped, the row
\* count of the target is its old row count plus the row counts of all the
\* sources, and every column of the target, old or newly added, has that
\* row count.
C1_RowCount ==
  (Succeeded /\ NonEmptyArgs # <<>>) =>
    /\ dt.nrows = dt0.nrows + SumSeq([k \in 1..Len(args) |-> args[k].nrows])
    /\ dt.ncols = Len(dt.columns)
    /\ \A c \in 1..Len(dt.columns) : dt.columns[c].nrows = dt.nrows

C1_Witness ==
  /\ Succeeded /\ NonEmptyArgs # <<>>
  /\ dt0.nrows > 0
  /\ dt.ncols > dt0.ncols
  /\ \E k \in 1..Len(args) : args[k].isframe /\ args[k].nrows = 0

---------------------------------------------------------------------------
\* C2: with force = FALSE, valid arguments and an unkeyed target, if some
\* source with rows has a column count different from the final column count,
\* or (by-name mode) a column name that is not in the final schema, the call
\* raises SchemaMismatch or UnknownColumn and the target is exactly as before
\* the call, whichever source offends.
Offends(k) ==
  \/ NonEmptyArgs[k].ncols # Len(StartNames)
  \/ bynames /\ \E c \in 1..NonEmptyArgs[k].ncols :
                  NonEmptyArgs[k].names[c] \notin Range(StartNames)

C2_PlannerFailure ==
  (/\ pc # "call" /\ ~force /\ AllFrames /\ dt0.nkeys = 0
   /\ \E k \in 1..Len(NonEmptyArgs) : Offends(k))
  => /\ pc = "raised"
     /\ err \in {"SchemaMismatch", "UnknownColumn"}
     /\ dt = dt0

C2_Witness ==
  /\ pc = "raised" /\ ~force /\ AllFrames /\ dt0.nkeys = 0
  /\ err = "UnknownColumn"
  /\ Len(NonEmptyArgs) = 2
  /\ ~Offends(1) /\ Offends(2)
  /\ dt0.nrows > 0

---------------------------------------------------------------------------
(* Permuting the columns of one argument *)
Perms(n) == {p \in [1..n -> 1..n] : \A a, b \in 1..n : a # b => p[a] # p[b]}
PermuteFrame(t, p) ==
  [t EXCEPT !.names = [c \in 1..t.ncols |-> t.names[p[c]]],
            !.columns = [c \in 1..t.ncols |-> t.columns[p[c]]]]
PermutedArgs(k, p) == [args EXCEPT ![k] = PermuteFrame(args[k], p)]
PermutedCall(k, p) == Frame_rbind_call(dt0, PermutedArgs(k, p), force, bynames, debug)
ColumnNamed(t, nm) == t.columns[CHOOSE c \in 1..Len(t.names) : t.names[c] = nm]

\* the names argument k brings that neither the target nor an earlier
\* argument with rows has
NewNames(k) ==
  IF args[k].nrows = 0 THEN {}
  ELSE Range(args[k].names) \
       (Range(dt0.names) \cup
        UNION {Range(args[m].names) : m \in {q \in 1..(k - 1) : args[q].nrows # 0}})

\* C3 as stated: in by-name mode, permuting the columns of any one source
\* gives the same result table, names in the same order and the same values.
C3_PermutationInvariant ==
  (Succeeded /\ bynames) =>
    \A k \in 1..Len(args) : \A p \in Perms(args[k].ncols) :
      PermutedCall(k, p) = [err |-> "", dt |-> dt]

\* C3 as amended: in by-name mode, permuting the columns of any one source
\* gives the same outcome and, on success, the same row count, the same set
\* of column names and the same column under every name; the order of the
\* names is the same too when the permuted source brings at most one name
\* that is new to the schema.
C3_PermutationByName ==
  (Done /\ bynames /\ AllFrames) =>
    \A k \in 1..Len(args) : \A p \in Perms(args[k].ncols) :
      LET r == PermutedCall(k, p)
      IN /\ r.err = err
         /\ Succeeded =>
              /\ r.dt.nrows = dt.nrows
              /\ Len(r.dt.names) = Len(dt.names)
              /\ Range(r.dt.names) = Range(dt.names)
              /\ \A nm \in Range(dt.names) : ColumnNamed(r.dt, nm) = ColumnNamed(dt, nm)
              /\ Cardinality(NewNames(k)) <= 1 => r.dt = dt

C3_Witness ==
  /\ Succeeded /\ bynames /\ ~force
  /\ dt0.names = <<"A", "B">> /\ dt0.nrows > 0
  /\ \E k \in 1..Len(args) : args[k].nrows # 0 /\ args[k].names = <<"B", "A">>

---------------------------------------------------------------------------
\* C4: in positional mode final column c is fed by column c of every source
\* that has at least c columns, whatever the names, and is absent for the
\* sources with fewer; with force, a source with more columns than the schema
\* so far widens it, the new names being that source's names at the excess
\* positions, and later sources are matched against the widened schema.
Planned == pc \in {"planned", "columns"} \/ (Done /\ cols # <<>>)
MaxNcols == 
  IF NonEmptyArgs = <<>> THEN 0
  ELSE CHOOSE m \in {NonEmptyArgs[k].ncols : k \in 1..Len(NonEmptyArgs)} :
         \A k \in 1..Len(NonEmptyArgs) : NonEmptyArgs[k].ncols <= m
PositionalName(c) ==
  IF c <= Len(StartNames) THEN StartNames[c]
  ELSE LET k == CHOOSE q \in 1..Len(NonEmptyArgs) :
                  /\ NonEmptyArgs[q].ncols >= c
                  /\ \A m \in 1..(q - 1) : NonEmptyArgs[m].ncols < c
       IN NonEmptyArgs[k].names[c]

C4_Positional ==
  /\ (Planned /\ ~bynames) =>
       /\ dts = NonEmptyArgs
       /\ Len(final_names) = Max(Len(StartNames), MaxNcols)
       /\ Len(cols) = Len(final_names)
       /\ \A c \in 1..Len(final_names) : final_names[c] = PositionalName(c)
       /\ \A c \in 1..Len(cols) :
            /\ Len(cols[c]) = Len(dts)
            /\ \A j \in 1..Len(dts) :
                 cols[c][j] = IF c <= dts[j].ncols THEN c ELSE INVALID_INDEX
  /\ (pc # "call" /\ ~bynames /\ force /\ AllFrames /\ dt0.nkeys = 0
        /\ NonEmptyArgs # <<>>) => Planned

C4_Witness ==
  /\ Planned /\ ~bynames /\ force
  /\ dt0.names = <<"A">>
  /\ Len(dts) = 2
  /\ dts[1].names = <<"B", "C">>
  /\ dts[2].names = <<"C">>
  /\ final_names = <<"A", "C">>

---------------------------------------------------------------------------
\* C5: frames without rows are dropped before the matching: the outcome of
\* the call is that of the call without them; they add no rows, raise no
\* SchemaMismatch or UnknownColumn, add no names and do not seed the schema of
\* a target without columns; when no source is left, the call returns with
\* the target unchanged.
NamesWithRows ==
  Range(dt0.names) \cup UNION {Range(NonEmptyArgs[k].names) : k \in 1..Len(NonEmptyArgs)}

C5_EmptyFramesDropped ==
  /\ (pc # "call" /\ AllFrames /\ NonEmptyArgs = <<>>) =>
       (Succeeded /\ dt = dt0)
  /\ (pc # "call" /\ AllFrames /\ NonEmptyArgs # <<>> /\ dt0.nkeys = 0) =>
       (dts = NonEmptyArgs)
  /\ Done =>
       [err |-> err, dt |-> dt] = Frame_rbind_call(dt0, WithoutEmpty, force, bynames, debug)
  /\ (Done /\ ~force /\ AllFrames /\ dt0.nkeys = 0
        /\ \A k \in 1..Len(NonEmptyArgs) : ~Offends(k)) =>
       err \notin {"SchemaMismatch", "UnknownColumn"}
  /\ Succeeded =>
       /\ Range(dt.names) \subseteq NamesWithRows
       /\ dt.nrows = dt0.nrows +
                     SumSeq([k \in 1..Len(NonEmptyArgs) |-> NonEmptyArgs[k].nrows])

C5_Witness ==
  /\ Succeeded /\ ~force /\ bynames
  /\ dt0.ncols = 0
  /\ Len(args) = 2
  /\ args[1].nrows = 0 /\ args[1].names = <<"C">>
  /\ args[2].nrows # 0 /\ args[2].names = <<"A", "B">>
  /\ dt.names = <<"A", "B">>

---------------------------------------------------------------------------
\* C6 as stated: whenever the target has a key column the call raises
\* KeyedFrame and leaves the target as it was, for every sources argument,
\* the keyed check coming before every other outcome of the call.
C6_KeyedAlways ==
  (pc # "call" /\ dt0.nkeys > 0) =>
    (pc = "raised" /\ err = "KeyedFrame" /\ dt = dt0)

\* C6 as amended: a call on a target with a key column never changes the
\* target; it raises InvalidArgument when an argument is not a frame, returns
\* silently when no argument has rows, and in every other case raises
\* KeyedFrame, before any matching of columns (so whatever the schemas of the
\* sources and the value of force).
C6_Keyed ==
  (pc # "call" /\ dt0.nkeys > 0) =>
    /\ dt = dt0
    /\ Done
    /\ ~AllFrames => (pc = "raised" /\ err = "InvalidArgument")
    /\ (AllFrames /\ NonEmptyArgs = <<>>) => Succeeded
    /\ (AllFrames /\ NonEmptyArgs # <<>>) => (pc = "raised" /\ err = "KeyedFrame")

C6_Witness ==
  /\ pc = "raised" /\ err = "KeyedFrame" /\ dt0.nkeys > 0
  /\ ~force /\ bynames
  /\ \E k \in 1..Len(NonEmptyArgs) : Offends(k)
  /\ \E k \in 1..Len(args) : args[k].nrows = 0

---------------------------------------------------------------------------
(* Vocabulary of the properties of one column's append.  Final column c is *)
(* rebuilt from SelfOf(c) and AppendedTo(c); log[c] records the call.       *)

SelfOf(c) ==
  IF c <= dt0.ncols THEN dt0.columns[c] ELSE Column("void", dt0.nrows, <<>>, <<>>)
AppendedTo(c) == ColsToAppend(dts, cols, c)
FinalRows(c) ==
  SelfOf(c).nrows + SumSeq([j \in 1..Len(dts) |-> AppendedTo(c)[j].nrows])
Rebuilt(c) == log[c].last.col
ResultType(c) == Rebuilt(c).stype

\* the first row (0-based offset) of the block of source j
BlockStart(c, j) ==
  SelfOf(c).nrows + SumSeq([k \in 1..(j - 1) |-> AppendedTo(c)[k].nrows])
\* the source whose block holds row s of the result
SourceOfRow(c, s) ==
  CHOOSE j \in 1..Len(dts) :
    BlockStart(c, j) < s /\ s <= BlockStart(c, j) + AppendedTo(c)[j].nrows

\* the row of the result as a function of the row that supplies it
Supplied(c, s, Val(_, _)) ==
  IF s <= SelfOf(c).nrows THEN Val(SelfOf(c), s)
  ELSE Val(AppendedTo(c)[SourceOfRow(c, s)], s - BlockStart(c, SourceOfRow(c, s)))

---------------------------------------------------------------------------
\* C7: a column whose result type is fixed-width holds the target's old
\* values (NA sentinels if the target column was Constant-NA or newly added),
\* then for each source in order its rows, cast to the result type, or that
\* many NA sentinels if the column is absent from the source, each block at
\* row offset old rows + rows of the sources before it; the write cursor ends
\* at final rows * width, so the closing assertion holds.
FwValueAs(T, col, r) ==
  IF col.stype = "void" THEN GETNA(T)
  ELSE IF col.mbuf[r] = GETNA(col.stype) THEN GETNA(T)
  ELSE col.mbuf[r]

C7_FixedWidthLayout ==
  \A c \in 1..Len(log) :
    (log[c].calls > 0 /\ ResultType(c) \in FwTypes) =>
      /\ log[c].calls = 1
      /\ log[c].last.cursor = FinalRows(c) * SizeOf(ResultType(c))
      /\ log[c].last.cursor = log[c].last.expected
      /\ Rebuilt(c).nrows = FinalRows(c)
      /\ Len(Rebuilt(c).mbuf) = FinalRows(c)
      /\ \A s \in 1..FinalRows(c) :
           LET Val(col, r) == FwValueAs(ResultType(c), col, r)
           IN Rebuilt(c).mbuf[s] = Supplied(c, s, Val)
      /\ dt.columns[c] = Rebuilt(c)

C7_Witness ==
  \E c \in 1..Len(log) :
    /\ ResultType(c) = "int32"
    /\ SelfOf(c).stype = "int8" /\ SelfOf(c).nrows = 2
    /\ Len(dts) = 2
    /\ AppendedTo(c)[1].stype = "void"
    /\ AppendedTo(c)[2].stype = "int32" /\ AppendedTo(c)[2].nrows = 2
    /\ \E s \in 1..2 : SelfOf(c).mbuf[s] = GETNA("int8")

---------------------------------------------------------------------------
\* C8: for a column whose result type is string, decoding the merged offsets
\* and bytes gives for every row the string, or the missing marker, of the
\* row that supplied it, whatever the offset widths of target and sources;
\* entry 0 of the offsets is 0, the offsets without their NA bit never
\* decrease, and a missing row's offset equals the previous end offset.
Missing == <<0>>
Present(bytes) == <<1>> \o bytes
StrValue(col, r) ==
  IF col.stype = "void" THEN Missing
  ELSE IF ISNA(col.mbuf[r + 1], col.stype) THEN Missing
  ELSE Present(StrBytes(col, r))

C8_StringRoundTrip ==
  \A c \in 1..Len(log) :
    (log[c].calls > 0 /\ ResultType(c) \in StrTypes) =>
      /\ Rebuilt(c).nrows = FinalRows(c)
      /\ Len(Rebuilt(c).mbuf) = FinalRows(c) + 1
      /\ Rebuilt(c).mbuf[1] = 0
      /\ \A k \in 1..(FinalRows(c) + 1) :
           Rebuilt(c).mbuf[k] \in 0..(WordMod(ResultType(c)) - 1)
      /\ \A s \in 1..FinalRows(c) :
           /\ StrStart(Rebuilt(c), s) <= StrEnd(Rebuilt(c), s)
           /\ StrEnd(Rebuilt(c), s) <= Len(Rebuilt(c).strbuf)
           /\ ISNA(Rebuilt(c).mbuf[s + 1], ResultType(c)) =>
                StrEnd(Rebuilt(c), s) = StrStart(Rebuilt(c), s)
           /\ StrValue(Rebuilt(c), s) = Supplied(c, s, StrValue)
      /\ dt.columns[c] = Rebuilt(c)

C8_Witness ==
  \E c \in 1..Len(log) :
    /\ ResultType(c) = "str64"
    /\ SelfOf(c).stype = "str32" /\ SelfOf(c).nrows = 2
    /\ Len(dts) = 2
    /\ AppendedTo(c)[1].stype = "str32"
    /\ AppendedTo(c)[2].stype = "str64"
    /\ \E r \in 1..AppendedTo(c)[1].nrows :
         Len(StrValue(AppendedTo(c)[1], r)) > 1
    /\ \E r \in 1..AppendedTo(c)[2].nrows :
         StrValue(AppendedTo(c)[2], r) = Missing

---------------------------------------------------------------------------
\* C9: when the new column has 32-bit offsets and the merged string bytes or
\* the final row count exceed the 32-bit limit, the first rbind_impl returns
\* the retry signal and leaves the new column as it was; Column::rbind casts
\* to 64-bit offsets and invokes rbind_impl once more, which does not signal,
\* and the column ends with 64-bit offsets.  When the 32-bit path writes,
\* every offset it writes has a magnitude within the 32-bit limit.
MergedBytes(c) ==
  SumSeq([s \in 1..FinalRows(c) |-> Len(Supplied(c, s, StrValue)) - 1])
Overflows32(c) ==
  MergedBytes(c) > MAX_ARR32_SIZE \/ FinalRows(c) > MAX_ARR32_SIZE

C9_WidthRetry ==
  \A c \in 1..Len(log) :
    (log[c].calls > 0 /\ log[c].start.stype \in StrTypes) =>
      /\ (log[c].start.stype = "str32" /\ Overflows32(c)) =>
           /\ log[c].first.new_stype = "str64"
           /\ log[c].first.col = log[c].start
           /\ log[c].calls = 2
           /\ log[c].last.new_stype = "void"
           /\ ResultType(c) = "str64"
           /\ dt.columns[c].stype = "str64"
      /\ (log[c].start.stype = "str32" /\ log[c].first.new_stype = "void") =>
           /\ log[c].calls = 1
           /\ ResultType(c) = "str32"
           /\ \A k \in 1..(FinalRows(c) + 1) :
                /\ Rebuilt(c).mbuf[k] \in 0..(Pow2(W32) - 1)
                /\ Magnitude(Rebuilt(c).mbuf[k], "str32") <= MAX_ARR32_SIZE
           /\ StrEnd(Rebuilt(c), FinalRows(c)) = MergedBytes(c)
      /\ log[c].start.stype = "str64" =>
           (log[c].calls = 1 /\ log[c].first.new_stype = "void")

C9_Witness ==
  \E c \in 1..Len(log) :
    /\ log[c].start.stype = "str32" /\ log[c].start.nrows > 0
    /\ log[c].calls = 2
    /\ MergedBytes(c) > MAX_ARR32_SIZE
    /\ FinalRows(c) <= MAX_ARR32_SIZE
    /\ dt.columns[c].stype = "str64"

---------------------------------------------------------------------------
\* C10: a column whose result type is object, also when the target column is
\* Constant-NA or newly added and has rows, holds the target's old values
\* (null singletons if it was Constant-NA) in the slots before old rows and
\* the values of source j (the null singleton for a missing value or an
\* absent source) from slot old rows + rows of the sources before j on; the
\* destination cursor ends at final rows, so the closing assertion holds.
ObjValue(col, r) ==
  IF col.stype = "void" THEN PyNone
  ELSE IF col.stype = "obj" THEN col.mbuf[r]
  ELSE IF ISNA(col.mbuf[r + 1], col.stype) THEN PyNone
  ELSE BoxStr(StrBytes(col, r))

C10_ObjectLayout ==
  \A c \in 1..Len(log) :
    (log[c].calls > 0 /\ ResultType(c) = "obj") =>
      /\ log[c].last.cursor = FinalRows(c)
      /\ log[c].last.cursor = log[c].last.expected
      /\ Len(Rebuilt(c).mbuf) = FinalRows(c)
      /\ \A s \in 1..FinalRows(c) : Rebuilt(c).mbuf[s] = Supplied(c, s, ObjValue)

---------------------------------------------------------------------------
\* C11: when Column::rbind throws the TypeError at final column i (the
\* left-to-right common type of the column's type and the types of the
\* columns to append does not exist), no later column is processed, every
\* final column before i has been rebuilt and has the new total row count,
\* column i and every column after it are as they were (a newly added one
\* a void column of the old row count), and the row count, the column count
\* and the names of the target are those from before the call.
RECURSIVE HasCommonType(_, _)
HasCommonType(T, types) ==
  IF types = <<>> THEN TRUE
  ELSE /\ TypeCommon(T, Head(types)) # "invalid"
       /\ HasCommonType(TypeCommon(T, Head(types)), Tail(types))
Conflicts(c) ==
  ~HasCommonType(SelfOf(c).stype, [j \in 1..Len(dts) |-> AppendedTo(c)[j].stype])

C11_TypeConflict ==
  /\ \A c \in 1..Len(log) :
       /\ Conflicts(c) <=> log[c].calls = 0
       /\ Conflicts(c) => (pc = "raised" /\ err = "TypeError" /\ c = i /\ c = Len(log))
  /\ (pc = "raised" /\ err = "TypeError") =>
       /\ i \in 1..Len(cols) /\ Len(log) = i /\ Conflicts(i)
       /\ new_nrows = dt0.nrows + SumSeq([j \in 1..Len(dts) |-> dts[j].nrows])
       /\ Len(dt.columns) = Len(cols)
       /\ \A c \in 1..(i - 1) :
            /\ log[c].calls > 0
            /\ dt.columns[c] = Rebuilt(c)
            /\ dt.columns[c].nrows = new_nrows
       /\ \A c \in i..Len(cols) :
            /\ dt.columns[c] = SelfOf(c)
            /\ dt.columns[c].nrows = dt0.nrows
       /\ dt.nrows = dt0.nrows
       /\ dt.ncols = dt0.ncols
       /\ dt.names = dt0.names
       /\ dt.nkeys = dt0.nkeys

C11_Witness ==
  /\ pc = "raised" /\ err = "TypeError"
  /\ bynames
  /\ dt0.nrows > 0
  /\ i = 2 /\ Len(cols) = 3
  /\ Len(dts) = 2
  /\ dt.columns[1].nrows > dt0.nrows
  /\ dt.columns[2].stype = "str32"
  /\ dt.columns[3].stype = "void"

---------------------------------------------------------------------------
\* C12: when the names of the target and of every source are unique, the
\* final names the matching produces hold no name twice, by name and by
\* position, with and without force, and so do the names of the target after
\* a successful append; the final names and the column index matrix have the
\* same length and every row of the matrix has one entry per source.
Unique(names) ==
  \A a \in 1..Len(names) : \A b \in 1..Len(names) : a # b => names[a] # names[b]
UniqueInputs ==
  Unique(dt0.names) /\ \A k \in 1..Len(args) : Unique(args[k].names)
Rectangular ==
  /\ Len(cols) = Len(final_names)
  /\ \A c \in 1..Len(cols) : Len(cols[c]) = Len(dts)

C12_UniqueNames ==
  UniqueInputs =>
    /\ Planned => (Unique(final_names) /\ Rectangular)
    /\ Succeeded => Unique(dt.names)

====
